---- MODULE Spec2Model ----
(***************************************************************************)
(* Model of the two cores of the bias-evaluation toolkit:                  *)
(*   - Evaluation/evaluate.py: the resumable batch runner (evaluate),      *)
(*     its persisted cursor (progress.json) and result store (results.csv) *)
(*   - DataAugmentation/main.py: the variation enumerator                  *)
(*     (powerset, filter_incompatible_variations,                          *)
(*      generate_entity_swap_combinations, get_all_combinations)           *)
(***************************************************************************)
EXTENDS Integers, Sequences, FiniteSets, TLC

(***************************************************************************)
(* Bounds of the model                                                     *)
(***************************************************************************)
NumFiles == 2      \* number of *.jsonl files in the data folder
MaxLines == 6      \* longest input file, in lines
MaxRuns == 3       \* invocations of evaluate in one behaviour
MaxFailures == 2   \* classify failures in one behaviour
MaxOriginals == 3  \* longest original_entities list passed to the enumerator
MaxCandidates == 2 \* longest replacement list of one entity
MaxLabel == 3      \* largest ground-truth label of an input record
MaxRequests == 3   \* longest request list passed to generate_variations
MaxKills == 1      \* times the evaluate process is killed in one behaviour

(***************************************************************************)
(* Program constants                                                       *)
(***************************************************************************)
CATEGORY_LIMIT == 5

\* json null in progress.json / None in load_progress' default
NoFile == 0
\* "no record": used by the history variables only
NoRecord == <<0, -1>>

VARIABLES
    \* ---- the environment of evaluate ----
    lens,              \* lens[f] = number of lines of the f-th file in sorted name order
    progress,          \* contents of progress.json: [last_file, last_line]
    results,           \* rows of results.csv, as <<source_file, line_index>>, in file order
    \* ---- one invocation of evaluate ----
    pc,                \* position of the invocation
    resume_from_file, resume_from_line, resume,
    fileIdx,           \* file of the outer loop (index into the sorted glob)
    idx,               \* line of the inner loop
    processed_count,   \* the module global
    \* ---- history of the behaviour ----
    runs,              \* invocations started
    failures,          \* classify failures so far
    classified,        \* records passed to query_groq in this invocation, in order
    succeeded,         \* query_groq calls that returned in this invocation
    failedAt,          \* record on which query_groq raised in this invocation
    prevFailed,        \* record on which the previous invocation was aborted
    startRows,         \* rows in the store when this invocation started
    startCursor,       \* cursor loaded when this invocation started
    \* ---- the enumerator ----
    enumPc,            \* "ready" | "filtered" | "combined"
    catalog,           \* argument of powerset in the last filter call
    filtered,          \* result of filter_incompatible_variations
    entity_lists, original_entities,  \* arguments of get_all_combinations
    swap_dicts,        \* result of generate_entity_swap_combinations
    combos,            \* result of get_all_combinations
    \* ---- the derived fields of one result row (evaluate, lines 129-138) ----
    derivePc,          \* "ready" | "answered" | "derived"
    raw_response,      \* message content returned by the chat completion
    model_choice,      \* what query_groq returns
    example_label,     \* the "label" field of the record, <<>> when absent
    model_idx,         \* letter_to_idx.get(model_choice): <<>> for None, else <<i>>
    correct_idx,
    is_correct,
    \* ---- one call of generate_variations ----
    gvPc,              \* "ready" | "loop" | "done"
    data_id,           \* data's example_id: <<>> when absent, else <<n>>
    requests,          \* all_variation_combinations
    reqIdx,            \* requests taken from the list so far
    id,                \* the local counter
    variations,        \* the list being built and returned
    attempted,         \* history: requests for which the remote call was made
    genErrors,         \* history: requests whose try block raised
    \* ---- external kills of the evaluate process ----
    kills              \* history: kills so far

evalVars == <<lens, progress, results, pc, resume_from_file, resume_from_line, resume,
              fileIdx, idx, processed_count, runs, failures, classified, succeeded,
              failedAt, prevFailed, startRows, startCursor>>
enumVars == <<enumPc, catalog, filtered, entity_lists, original_entities, swap_dicts, combos>>
deriveVars == <<derivePc, raw_response, model_choice, example_label, model_idx,
                correct_idx, is_correct>>
\* everything outside the batch runner and the enumerator
genVars == <<gvPc, data_id, requests, reqIdx, id, variations, attempted, genErrors>>
otherVars == <<deriveVars, genVars, kills>>
vars == <<evalVars, enumVars, otherVars>>

(***************************************************************************)
(* Resumable batch runner: Evaluation/evaluate.py                          *)
(***************************************************************************)
Files == 1..NumFiles
\* file lengths the behaviours start from: empty, short, exactly the cap, longer
FileLengths == {0, 1, 2, CATEGORY_LIMIT, MaxLines}

Cursor(f, n) == [last_file |-> f, last_line |-> n]

\* load_progress: the default when progress.json does not exist
DefaultProgress == Cursor(NoFile, -1)

\* (mutant) off by one: the cursor written after a row names the line before it
SuccessCursor_Stale(f, i) == Cursor(f, i - 1)

\* save_progress(progress_file, file_name, idx) after a successful record
SuccessCursor(f, i) == Cursor(f, i)

\* (mutant) the except branch leaves the cursor on the record before the failed one
FailureCursor_Previous(f, i) == Cursor(f, i - 1)

\* save_progress(progress_file, file_name, idx) in the except branch
FailureCursor(f, i) == Cursor(f, i)

\* (mutant) every file is processed, whatever the cursor says
InitialResume_Always(rf) == TRUE

\* resume = resume_from_file is None
InitialResume(rf) == rf = NoFile

\* (mutant) off by one: the line the cursor names is not skipped
SkipsLine_Strict(f, i, rf, rl) == f = rf /\ i < rl

\* (mutant) the file name is not compared
SkipsLine_AnyFile(f, i, rf, rl) == i <= rl

\* if file_name == resume_from_file and idx <= resume_from_line: continue
SkipsLine(f, i, rf, rl) == f = rf /\ i <= rl

\* if processed_count >= CATEGORY_LIMIT
CapReached(n) == n >= CATEGORY_LIMIT

\* (mutant) break instead of return: the file loop goes on
AfterFailure_Break == "file_loop"

\* where the invocation goes after the except branch: return
AfterFailure == "idle"

InitEnumIdle ==
    /\ enumPc = "ready"
    /\ catalog = <<>>
    /\ filtered = <<>>
    /\ entity_lists = <<>>
    /\ original_entities = <<>>
    /\ swap_dicts = <<>>
    /\ combos = <<>>

InitDeriveIdle ==
    /\ derivePc = "ready"
    /\ raw_response = ""
    /\ model_choice = ""
    /\ example_label = <<>>
    /\ model_idx = <<>>
    /\ correct_idx = -1
    /\ is_correct = FALSE

InitGenIdle ==
    /\ gvPc = "ready"
    /\ data_id = <<>>
    /\ requests = <<>>
    /\ reqIdx = 0
    /\ id = 1
    /\ variations = <<>>
    /\ attempted = <<>>
    /\ genErrors = 0

InitOtherIdle ==
    /\ InitDeriveIdle
    /\ InitGenIdle
    /\ kills = 0

InitEvalWith(l) ==
    /\ lens = l
    /\ progress = DefaultProgress
    /\ results = <<>>
    /\ pc = "idle"
    /\ resume_from_file = NoFile
    /\ resume_from_line = -1
    /\ resume = TRUE
    /\ fileIdx = 0
    /\ idx = 0
    /\ processed_count = 0
    /\ runs = 0
    /\ failures = 0
    /\ classified = <<>>
    /\ succeeded = 0
    /\ failedAt = NoRecord
    /\ prevFailed = NoRecord
    /\ startRows = 0
    /\ startCursor = DefaultProgress

Init ==
    /\ \E l \in [Files -> FileLengths] : InitEvalWith(l)
    /\ InitEnumIdle
    /\ InitOtherIdle

\* evaluate(): lines 85-99, up to the first iteration of the file loop.
\* Each invocation is one run of the script, so the module global
\* processed_count starts at 0 (line 45).
Start ==
    /\ pc = "idle"
    /\ runs < MaxRuns
    /\ runs' = runs + 1
    /\ resume_from_file' = progress.last_file
    /\ resume_from_line' = progress.last_line
    /\ resume' = InitialResume(progress.last_file)
    /\ processed_count' = 0
    /\ fileIdx' = 0
    /\ idx' = 0
    /\ pc' = "file_loop"
    /\ classified' = <<>>
    /\ succeeded' = 0
    /\ prevFailed' = failedAt
    /\ failedAt' = NoRecord
    /\ startRows' = Len(results)
    /\ startCursor' = progress
    /\ UNCHANGED <<lens, progress, results, failures, enumVars, otherVars>>

\* for file_path in sorted(glob...): a file before the resume file: continue
SkipFile ==
    /\ pc = "file_loop"
    /\ fileIdx < NumFiles
    /\ ~resume
    /\ fileIdx + 1 # resume_from_file
    /\ fileIdx' = fileIdx + 1
    /\ UNCHANGED <<lens, progress, results, pc, resume_from_file, resume_from_line, resume,
                   idx, processed_count, runs, failures, classified, succeeded,
                   failedAt, prevFailed, startRows, startCursor, enumVars, otherVars>>

\* the next file is opened and its lines enumerated from 0
OpenFile ==
    /\ pc = "file_loop"
    /\ fileIdx < NumFiles
    /\ resume \/ fileIdx + 1 = resume_from_file
    /\ resume' = TRUE
    /\ fileIdx' = fileIdx + 1
    /\ idx' = 0
    /\ pc' = "line_loop"
    /\ UNCHANGED <<lens, progress, results, resume_from_file, resume_from_line,
                   processed_count, runs, failures, classified, succeeded,
                   failedAt, prevFailed, startRows, startCursor, enumVars, otherVars>>

\* the file loop is exhausted: "Evaluation complete", evaluate returns
Complete ==
    /\ pc = "file_loop"
    /\ fileIdx = NumFiles
    /\ pc' = "idle"
    /\ UNCHANGED <<lens, progress, results, resume_from_file, resume_from_line, resume,
                   fileIdx, idx, processed_count, runs, failures, classified, succeeded,
                   failedAt, prevFailed, startRows, startCursor, enumVars, otherVars>>

\* enumerate(f) is exhausted: on to the next file
EndOfFile ==
    /\ pc = "line_loop"
    /\ idx >= lens[fileIdx]
    /\ pc' = "file_loop"
    /\ UNCHANGED <<lens, progress, results, resume_from_file, resume_from_line, resume,
                   fileIdx, idx, processed_count, runs, failures, classified, succeeded,
                   failedAt, prevFailed, startRows, startCursor, enumVars, otherVars>>

\* a line at or before the cursor: continue
SkipLine ==
    /\ pc = "line_loop"
    /\ idx < lens[fileIdx]
    /\ SkipsLine(fileIdx, idx, resume_from_file, resume_from_line)
    /\ idx' = idx + 1
    /\ UNCHANGED <<lens, progress, results, pc, resume_from_file, resume_from_line, resume,
                   fileIdx, processed_count, runs, failures, classified, succeeded,
                   failedAt, prevFailed, startRows, startCursor, enumVars, otherVars>>

\* the cap: processed_count = 0; break (leaves the line loop only)
CapBreak ==
    /\ pc = "line_loop"
    /\ idx < lens[fileIdx]
    /\ ~SkipsLine(fileIdx, idx, resume_from_file, resume_from_line)
    /\ CapReached(processed_count)
    /\ processed_count' = 0
    /\ pc' = "file_loop"
    /\ UNCHANGED <<lens, progress, results, resume_from_file, resume_from_line, resume,
                   fileIdx, idx, runs, failures, classified, succeeded,
                   failedAt, prevFailed, startRows, startCursor, enumVars, otherVars>>

\* query_groq returns an answer
ClassifyOk ==
    /\ pc = "line_loop"
    /\ idx < lens[fileIdx]
    /\ ~SkipsLine(fileIdx, idx, resume_from_file, resume_from_line)
    /\ ~CapReached(processed_count)
    /\ classified' = Append(classified, <<fileIdx, idx>>)
    /\ succeeded' = succeeded + 1
    /\ pc' = "append"
    /\ UNCHANGED <<lens, progress, results, resume_from_file, resume_from_line, resume,
                   fileIdx, idx, processed_count, runs, failures,
                   failedAt, prevFailed, startRows, startCursor, enumVars, otherVars>>

\* query_groq raises (after its own retries): save_progress, return
ClassifyFail ==
    /\ pc = "line_loop"
    /\ idx < lens[fileIdx]
    /\ ~SkipsLine(fileIdx, idx, resume_from_file, resume_from_line)
    /\ ~CapReached(processed_count)
    /\ failures < MaxFailures
    /\ failures' = failures + 1
    /\ classified' = Append(classified, <<fileIdx, idx>>)
    /\ failedAt' = <<fileIdx, idx>>
    /\ progress' = FailureCursor(fileIdx, idx)
    /\ pc' = AfterFailure
    /\ UNCHANGED <<lens, results, resume_from_file, resume_from_line, resume,
                   fileIdx, idx, processed_count, runs, succeeded,
                   prevFailed, startRows, startCursor, enumVars, otherVars>>

\* pd.DataFrame([result]).to_csv(output_file, mode='a', ...)
AppendRow ==
    /\ pc = "append"
    /\ results' = Append(results, <<fileIdx, idx>>)
    /\ pc' = "save"
    /\ UNCHANGED <<lens, progress, resume_from_file, resume_from_line, resume,
                   fileIdx, idx, processed_count, runs, failures, classified, succeeded,
                   failedAt, prevFailed, startRows, startCursor, enumVars, otherVars>>

\* processed_count += 1; save_progress(progress_file, file_name, idx); next line
SaveProgress ==
    /\ pc = "save"
    /\ processed_count' = processed_count + 1
    /\ progress' = SuccessCursor(fileIdx, idx)
    /\ idx' = idx + 1
    /\ pc' = "line_loop"
    /\ UNCHANGED <<lens, results, resume_from_file, resume_from_line, resume,
                   fileIdx, runs, failures, classified, succeeded,
                   failedAt, prevFailed, startRows, startCursor, enumVars, otherVars>>

Next ==
    \/ Start
    \/ SkipFile
    \/ OpenFile
    \/ Complete
    \/ EndOfFile
    \/ SkipLine
    \/ CapBreak
    \/ ClassifyOk
    \/ ClassifyFail
    \/ AppendRow
    \/ SaveProgress

Spec == Init /\ [][Next]_vars

\* The process running evaluate is killed from outside, anywhere in its loops:
\* before a classify call, between the row append and the cursor write, or
\* after the cursor write. progress.json and results.csv stay as they are.
Kill ==
    /\ pc \in {"file_loop", "line_loop", "append", "save"}
    /\ kills < MaxKills
    /\ kills' = kills + 1
    /\ pc' = "idle"
    /\ UNCHANGED <<lens, progress, results, resume_from_file, resume_from_line, resume,
                   fileIdx, idx, processed_count, runs, failures, classified, succeeded,
                   failedAt, prevFailed, startRows, startCursor, enumVars, deriveVars,
                   genVars>>

NextKill ==
    \/ Next
    \/ Kill

SpecKill == Init /\ [][NextKill]_vars

(***************************************************************************)
(* Variation enumerator: DataAugmentation/main.py                          *)
(***************************************************************************)
VAR_TYPE_1 == "Change entity names"
VAR_TYPE_2 == "Alter polarity"
VAR_TYPE_3 == "Add more context favoring first group"
VAR_TYPE_4 == "Add more context favoring second group"

\* the module global; VAR_TYPE_1 is commented out of it
variation_types == <<VAR_TYPE_2, VAR_TYPE_3, VAR_TYPE_4>>

\* x in a_list
Contains(seq, x) == \E k \in 1..Len(seq) : seq[k] = x

PrependAll(x, seqs) == [k \in 1..Len(seqs) |-> <<x>> \o seqs[k]]

\* itertools.combinations(items, r): the r-element sub-tuples, in lexicographic
\* order of their positions
RECURSIVE combinations(_, _)
combinations(items, r) ==
    IF r = 0 THEN << <<>> >>
    ELSE IF Len(items) < r THEN <<>>
    ELSE PrependAll(Head(items), combinations(Tail(items), r - 1))
         \o combinations(Tail(items), r)

\* chain.from_iterable(combinations(items, r) for r in range(first, len(items)+1))
RECURSIVE ChainCombinations(_, _)
ChainCombinations(items, r) ==
    IF r > Len(items) THEN <<>>
    ELSE combinations(items, r) \o ChainCombinations(items, r + 1)

\* (mutant) range(0, ...): the empty subset is produced too
powerset_WithEmpty(items) == ChainCombinations(items, 0)

\* powerset(iterable): all non-empty subsets, range(1, len(items)+1)
powerset(items) == ChainCombinations(items, 1)

\* (mutant) nothing is incompatible
Incompatible_Never(subset) == FALSE

\* VAR_TYPE_3 in subset and VAR_TYPE_4 in subset
Incompatible(subset) == Contains(subset, VAR_TYPE_3) /\ Contains(subset, VAR_TYPE_4)

Compatible(subset) == ~Incompatible(subset)

filter_incompatible_variations(variation_subsets) ==
    SelectSeq(variation_subsets, Compatible)

\* A dict is modelled by the set of its items, <<key, value>>: what
\* frozenset(swaps.items()) is, and what dict equality compares.
EmptyDict == {}
Dict1(k, v) == {<<k, v>>}
\* the literal {k1: v1, k2: v2}: with equal keys the later value wins
Dict2(k1, v1, k2, v2) == IF k1 = k2 THEN {<<k2, v2>>} ELSE {<<k1, v1>>, <<k2, v2>>}

\* entity_lists.get(key, [])
Get(el, key) == IF key \in DOMAIN el THEN el[key] ELSE <<>>

\* (mutant) only too few originals are rejected
WrongArity_TooFew(oe) == Len(oe) < 2

\* if len(original_entities) != 2: return []
WrongArity(oe) == Len(oe) # 2

\* (mutant) the candidate is not compared with the other original
ValidReplacement_NotSelf(e, o1, o2) == e # "" /\ e # o1

\* new_entity and new_entity != orig_entity1 and new_entity != orig_entity2
ValidReplacement(e, o1, o2) == e # "" /\ e # o1 /\ e # o2

\* itertools.product(l1, l2), in its order: l2 varies fastest
product(l1, l2) ==
    [k \in 1..(Len(l1) * Len(l2)) |->
        <<l1[((k - 1) \div Len(l2)) + 1], l2[((k - 1) % Len(l2)) + 1]>>]

generate_entity_swap_combinations(el, oe) ==
    IF WrongArity(oe) THEN <<>>
    ELSE
        LET o1 == oe[1]
            o2 == oe[2]
            l1 == Get(el, o1)
            l2 == Get(el, o2)
            Ok(e) == ValidReplacement(e, o1, o2)
            OkPair(p) == Ok(p[1]) /\ Ok(p[2]) /\ p[1] # p[2]
            firsts == SelectSeq(l1, Ok)
            seconds == SelectSeq(l2, Ok)
            both == SelectSeq(product(l1, l2), OkPair)
        IN  <<EmptyDict>>
            \o [k \in 1..Len(firsts) |-> Dict1(o1, firsts[k])]
            \o [k \in 1..Len(seconds) |-> Dict1(o2, seconds[k])]
            \o [k \in 1..Len(both) |-> Dict2(o1, both[k][1], o2, both[k][2])]

\* (mutant) the swaps are left out of the key
SeenKey_VariationsOnly(subset, swaps) == subset

\* key = (tuple(vars), frozenset(swaps.items()))
SeenKey(subset, swaps) == <<subset, swaps>>

\* (mutant) no key is ever looked up: every pair is kept
DedupeFrom_KeepAll(pairs, k, seen, acc) == pairs

\* the two nested loops over a list of pairs, keeping the first of each key
RECURSIVE DedupeFrom(_, _, _, _)
DedupeFrom(pairs, k, seen, acc) ==
    IF k > Len(pairs) THEN acc
    ELSE LET key == SeenKey(pairs[k][1], pairs[k][2])
         IN  IF key \in seen
             THEN DedupeFrom(pairs, k + 1, seen, acc)
             ELSE DedupeFrom(pairs, k + 1, seen \cup {key}, Append(acc, pairs[k]))

get_all_combinations(el, oe) ==
    LET variation_subsets == filter_incompatible_variations(powerset(variation_types))
        dicts == generate_entity_swap_combinations(el, oe)
    IN  DedupeFrom(product(variation_subsets, dicts), 1, {}, <<>>)

\* ---- inputs of the enumerator ----
SeqsUpTo(S, n) == UNION {[1..k -> S] : k \in 0..n}
EntityNames == {"Ali", "Sara"}
\* replacement values: blank, an original entity, and two new names
CandidateValues == {"", "Sara", "Hassan", "Ayesha"}
AllTypes == <<VAR_TYPE_1, VAR_TYPE_2, VAR_TYPE_3, VAR_TYPE_4>>
\* the elements of seq at the positions I, in order
RECURSIVE SubSeqAt(_, _, _)
SubSeqAt(seq, I, k) ==
    IF k > Len(seq) THEN <<>>
    ELSE (IF k \in I THEN <<seq[k]>> ELSE <<>>) \o SubSeqAt(seq, I, k + 1)
SubSeqs(seq) == {SubSeqAt(seq, I, 1) : I \in SUBSET (1..Len(seq))}
Catalogs == SubSeqs(AllTypes)

\* filter_incompatible_variations(powerset(cat)) for a catalog cat
CallFilter ==
    /\ enumPc = "ready"
    /\ \E cat \in Catalogs :
        /\ catalog' = cat
        /\ filtered' = filter_incompatible_variations(powerset(cat))
    /\ enumPc' = "filtered"
    /\ UNCHANGED <<evalVars, otherVars, entity_lists, original_entities, swap_dicts, combos>>

\* get_all_combinations(entity_lists, original_entities)
CallGetAllCombinations ==
    /\ enumPc = "ready"
    /\ \E el \in [EntityNames -> SeqsUpTo(CandidateValues, MaxCandidates)],
          oe \in SeqsUpTo(EntityNames, MaxOriginals) :
        /\ entity_lists' = el
        /\ original_entities' = oe
        /\ swap_dicts' = generate_entity_swap_combinations(el, oe)
        /\ combos' = get_all_combinations(el, oe)
    /\ enumPc' = "combined"
    /\ UNCHANGED <<evalVars, otherVars, catalog, filtered>>

InitEnum ==
    /\ InitEvalWith([f \in Files |-> 0])
    /\ InitEnumIdle
    /\ InitOtherIdle

NextEnum ==
    \/ CallFilter
    \/ CallGetAllCombinations

SpecEnum == InitEnum /\ [][NextEnum]_vars

(***************************************************************************)
(* Derived fields of a result row: Evaluation/evaluate.py, lines 69, 135-138 *)
(***************************************************************************)
\* message contents the completion may carry
RawResponses == {"A", "B", "C", "a", "b", "c", " a", " c ", " B ", "D", "d", "", "AB",
                 "A)", "B.", "b.", "1"}

\* response.choices[0].message.content.strip().upper(), on RawResponses
StripUpper(raw) ==
    CASE raw = "a" -> "A"
      [] raw = " a" -> "A"
      [] raw = "b" -> "B"
      [] raw = "c" -> "C"
      [] raw = "d" -> "D"
      [] raw = " c " -> "C"
      [] raw = " B " -> "B"
      [] raw = "b." -> "B."
      [] OTHER -> raw

\* (mutant) the letters are numbered from 1
LetterToIdx_OneBased(choice) ==
    CASE choice = "A" -> <<1>>
      [] choice = "B" -> <<2>>
      [] choice = "C" -> <<3>>
      [] OTHER -> <<>>

\* letter_to_idx = {"A": 0, "B": 1, "C": 2}; letter_to_idx.get(model_choice)
\* None is <<>>, an index i is <<i>>: None equals no integer
LetterToIdx(choice) ==
    CASE choice = "A" -> <<0>>
      [] choice = "B" -> <<1>>
      [] choice = "C" -> <<2>>
      [] OTHER -> <<>>

\* int(example.get("label", -1))
CorrectIdx(label) == IF label = <<>> THEN -1 ELSE label[1]

\* is_correct = (model_idx == correct_idx)
IsCorrect(mi, ci) == mi = <<ci>>

\* the "label" field of a record: absent, or an integer
Labels == {<<>>} \cup {<<n>> : n \in -1..MaxLabel}

\* model_choice = query_groq(...)
QueryGroqReturns ==
    /\ derivePc = "ready"
    /\ \E raw \in RawResponses :
        /\ raw_response' = raw
        /\ model_choice' = StripUpper(raw)
    /\ derivePc' = "answered"
    /\ UNCHANGED <<evalVars, enumVars, genVars, kills, example_label, model_idx, correct_idx,
                   is_correct>>

\* lines 135-138, for a record with any label
DeriveCorrect ==
    /\ derivePc = "answered"
    /\ \E label \in Labels :
        /\ example_label' = label
        /\ model_idx' = LetterToIdx(model_choice)
        /\ correct_idx' = CorrectIdx(label)
        /\ is_correct' = IsCorrect(LetterToIdx(model_choice), CorrectIdx(label))
    /\ derivePc' = "derived"
    /\ UNCHANGED <<evalVars, enumVars, genVars, kills, raw_response, model_choice>>

NextDerive ==
    \/ QueryGroqReturns
    \/ DeriveCorrect

SpecDerive == InitEnum /\ [][NextDerive]_vars

(***************************************************************************)
(* generate_variations: DataAugmentation/main.py, lines 118-128, 162-220   *)
(***************************************************************************)
\* id = data.get('example_id', 1)
DefaultId(did) == IF did = <<>> THEN 1 ELSE did[1]

\* if not variation and not swap: continue
IsOriginalRequest(request) == request[1] = <<>> /\ request[2] = EmptyDict

\* what the remote call does: it raises, or returns a text of one of these shapes
RemoteOutcomes == {"raises", "object", "wrapped_object", "no_braces", "invalid_braces",
                   "two_objects"}

\* extract_valid_json: re.search(r'\{.*\}', text, re.DOTALL), greedy; None when
\* there is no match
extract_valid_json(text) ==
    CASE text = "object" -> "object"
      [] text = "wrapped_object" -> "object"
      [] text = "no_braces" -> "None"
      [] text = "invalid_braces" -> "invalid_braces"
      [] text = "two_objects" -> "invalid_braces"

\* json.loads returns for the text of one object; it raises for None and for
\* anything else between braces
JsonLoads(extracted) == extracted = "object"

\* the try block runs through: no exception from the call, the extraction or
\* the parse
TryCompletes(outcome) == outcome # "raises" /\ JsonLoads(extract_valid_json(outcome))

\* (mutant) an id carried by the response is kept
AssignedId_KeepsResponse(response_id, counter) ==
    IF response_id = <<>> THEN <<counter>> ELSE response_id

\* new_data['example_id'] = id
AssignedId(response_id, counter) == <<counter>>

\* (mutant) the except branch returns what was generated so far
AfterGenerationError_Return == "done"

\* except Exception: ... continue
AfterGenerationError == "loop"

\* requests the callers pass: the original, a transform, a swap, both
RequestKinds == {<<<<>>, EmptyDict>>,
                 <<<<VAR_TYPE_2>>, EmptyDict>>,
                 <<<<>>, Dict1("Ali", "Hassan")>>}
DataIds == {<<>>, <<1>>, <<7>>}
ResponseIds == {<<>>, <<99>>}

\* lines 163-168: the call, up to the loop
GenStart ==
    /\ gvPc = "ready"
    /\ \E did \in DataIds, reqs \in SeqsUpTo(RequestKinds, MaxRequests) :
        /\ data_id' = did
        /\ requests' = reqs
        /\ id' = DefaultId(did)
        /\ variations' = <<[kind |-> "original", request |-> 0, example_id |-> did,
                            response_id |-> did]>>
    /\ reqIdx' = 0
    /\ attempted' = <<>>
    /\ genErrors' = 0
    /\ gvPc' = "loop"
    /\ UNCHANGED <<evalVars, enumVars, deriveVars, kills, kills>>

\* the request is the original: continue
GenSkipOriginal ==
    /\ gvPc = "loop"
    /\ reqIdx < Len(requests)
    /\ IsOriginalRequest(requests[reqIdx + 1])
    /\ reqIdx' = reqIdx + 1
    /\ UNCHANGED <<evalVars, enumVars, deriveVars, kills, gvPc, data_id, requests, id, variations,
                   attempted, genErrors>>

\* the try block runs through: lines 198-214
GenAppend ==
    /\ gvPc = "loop"
    /\ reqIdx < Len(requests)
    /\ ~IsOriginalRequest(requests[reqIdx + 1])
    /\ \E outcome \in RemoteOutcomes, rid \in ResponseIds :
        /\ TryCompletes(outcome)
        /\ variations' = Append(variations,
               [kind |-> "generated", request |-> reqIdx + 1,
                example_id |-> AssignedId(rid, id), response_id |-> rid])
    /\ id' = id + 1
    /\ attempted' = Append(attempted, reqIdx + 1)
    /\ reqIdx' = reqIdx + 1
    /\ UNCHANGED <<evalVars, enumVars, deriveVars, kills, gvPc, data_id, requests, genErrors>>

\* the call, the extraction or the parse raises: lines 215-218
GenError ==
    /\ gvPc = "loop"
    /\ reqIdx < Len(requests)
    /\ ~IsOriginalRequest(requests[reqIdx + 1])
    /\ \E outcome \in RemoteOutcomes : ~TryCompletes(outcome)
    /\ attempted' = Append(attempted, reqIdx + 1)
    /\ reqIdx' = reqIdx + 1
    /\ genErrors' = genErrors + 1
    /\ gvPc' = AfterGenerationError
    /\ UNCHANGED <<evalVars, enumVars, deriveVars, kills, data_id, requests, id, variations>>

\* return variations
GenReturn ==
    /\ gvPc = "loop"
    /\ reqIdx = Len(requests)
    /\ gvPc' = "done"
    /\ UNCHANGED <<evalVars, enumVars, deriveVars, kills, data_id, requests, reqIdx, id, variations,
                   attempted, genErrors>>

NextGen ==
    \/ GenStart
    \/ GenSkipOriginal
    \/ GenAppend
    \/ GenError
    \/ GenReturn

SpecGen == InitEnum /\ [][NextGen]_vars

(***************************************************************************)
(* Properties of the batch runner                                          *)
(***************************************************************************)
Rows == {results[k] : k \in 1..Len(results)}
Records == {r \in Files \X (0..MaxLines) : r[2] < lens[r[1]]}
\* (sorted file name, line index) order
RecLess(a, b) == a[1] < b[1] \/ (a[1] = b[1] /\ a[2] < b[2])
CursorRec(c) == <<c.last_file, c.last_line>>
After(c) == {r \in Records : RecLess(CursorRec(c), r)}
HasNext(c) == After(c) # {}
NextRecord(c) == CHOOSE r \in After(c) : \A s \in After(c) : r = s \/ RecLess(r, s)
\* the cursor of the last row of the store: the last record completed
LastCompleted ==
    IF results = <<>> THEN DefaultProgress
    ELSE Cursor(results[Len(results)][1], results[Len(results)][2])
NoDuplicateRows ==
    \A j, k \in 1..Len(results) : j # k => results[j] # results[k]

\* C1 (as stated): when query_groq raises on record (f, i), the cursor persisted
\* by that run names the last record completed before it and never (f, i) itself.
C1_CursorBeforeFailed ==
    failedAt # NoRecord =>
        /\ progress = LastCompleted
        /\ CursorRec(progress) # failedAt

\* C1 (amended): when query_groq raises on record (f, i), the cursor persisted by
\* that run names the failed record (f, i) itself.
C1_CursorAtFailed ==
    failedAt # NoRecord => CursorRec(progress) = failedAt

C1_Witness ==
    /\ failedAt # NoRecord
    /\ failedAt[2] > 0
    /\ succeeded > 0
    /\ pc = "idle"

\* C2 (as stated): the invocation after one aborted on record r passes r to
\* query_groq first.
C2_RetriesFailed ==
    (prevFailed # NoRecord /\ Len(classified) >= 1) => classified[1] = prevFailed

\* C2 (amended): the invocation after one aborted on record r never passes r to
\* query_groq; the first record it classifies is the one that follows r in
\* (file, line) order, and r has no row in the store.
C2_SkipsFailed ==
    prevFailed # NoRecord =>
        /\ CursorRec(startCursor) = prevFailed
        /\ \A k \in 1..Len(classified) : classified[k] # prevFailed
        /\ Len(classified) >= 1 => classified[1] = NextRecord(startCursor)
        /\ prevFailed \notin Rows

C2_Witness ==
    /\ prevFailed # NoRecord
    /\ Len(classified) >= 1
    /\ Len(results) > startRows
    /\ pc = "idle"

\* C3: one invocation never classifies (nor appends rows for) more than
\* CATEGORY_LIMIT records.
C3_CapPerInvocation ==
    /\ Len(classified) <= CATEGORY_LIMIT
    /\ Len(results) - startRows <= CATEGORY_LIMIT

\* C6: at the end of every invocation the store holds the rows it held at the
\* start plus one row per successful classify, and no (source_file, line_index)
\* pair occurs in two rows.
C6_RowsExactlyOnce ==
    /\ pc = "idle" => Len(results) = startRows + succeeded
    /\ pc \in {"file_loop", "line_loop"} => Len(results) = startRows + succeeded
    /\ NoDuplicateRows

C6_Witness ==
    /\ pc = "idle"
    /\ startRows >= 2
    /\ succeeded >= 2
    /\ failedAt # NoRecord

\* C7: when query_groq raises the invocation is over: the failed record is the
\* last one classified, it has no row, and the store holds exactly the rows of
\* the records that succeeded before it.
C7_FailFast ==
    failedAt # NoRecord =>
        /\ pc = "idle"
        /\ classified[Len(classified)] = failedAt
        /\ failedAt \notin Rows
        /\ Len(results) = startRows + succeeded

C7_Witness ==
    /\ failedAt # NoRecord
    /\ HasNext(Cursor(failedAt[1], failedAt[2]))
    /\ failedAt[1] < NumFiles
    /\ lens[NumFiles] > 0
    /\ succeeded > 0

\* C8: an invocation started with cursor (f, n) classifies and appends only
\* records after (f, n) in (file, line) order, the first one being the record
\* that follows (f, n); with the null cursor it starts at the first record.
C8_ResumeAfterCursor ==
    /\ \A k \in 1..Len(classified) : RecLess(CursorRec(startCursor), classified[k])
    /\ Len(classified) >= 1 => classified[1] = NextRecord(startCursor)
    /\ \A k \in (startRows + 1)..Len(results) : RecLess(CursorRec(startCursor), results[k])
    /\ (runs > 0 /\ pc = "idle" /\ HasNext(startCursor)) => Len(classified) >= 1

C8_Witness ==
    /\ startCursor.last_file = NumFiles
    /\ startCursor.last_line >= 0
    /\ lens[1] > 0
    /\ Len(classified) >= 1
    /\ classified[1] = <<NumFiles, startCursor.last_line + 1>>
    /\ Len(results) > startRows

\* the resumed invocation moves on to the next file when the cursor names the
\* last line of its file
C8_WitnessNextFile ==
    /\ startCursor.last_file # NoFile
    /\ Len(classified) >= 1
    /\ classified[1][1] > startCursor.last_file

(***************************************************************************)
(* Properties of the enumerator (checked under SpecEnum)                   *)
(***************************************************************************)
SeqRange(seq) == {seq[k] : k \in 1..Len(seq)}
BothDirections(subset) == {VAR_TYPE_3, VAR_TYPE_4} \subseteq SeqRange(subset)
\* the non-empty sub-tuples of a catalog that do not hold both bias directions
Surviving(cat) == {sub \in SubSeqs(cat) : sub # <<>> /\ ~BothDirections(sub)}
\* the request "no transform, no swap"
AllEmpty == <<<<>>, EmptyDict>>
Occurrences(seq, x) == Cardinality({k \in 1..Len(seq) : seq[k] = x})
TwoDistinctOriginals == Len(original_entities) = 2 /\ original_entities[1] # original_entities[2]

\* C4 (as stated): for two original entities, the result of get_all_combinations
\* contains the all-empty request exactly once.
C4_AllEmptyOnce ==
    (enumPc = "combined" /\ TwoDistinctOriginals) => Occurrences(combos, AllEmpty) = 1

\* C4 (amended): the result of get_all_combinations never contains the all-empty
\* request: every request in it has a non-empty transform subset.
C4_AllEmptyNever ==
    enumPc = "combined" =>
        /\ Occurrences(combos, AllEmpty) = 0
        /\ \A k \in 1..Len(combos) : combos[k][1] # <<>>

C4_Witness ==
    /\ enumPc = "combined"
    /\ TwoDistinctOriginals
    /\ \E k \in 1..Len(combos) : combos[k][2] = EmptyDict
    /\ \E k \in 1..Len(combos) : Cardinality(combos[k][2]) = 2

\* C5 (as stated): for every non-empty swap map s of
\* generate_entity_swap_combinations, the swap-only request (no transform, s) is
\* in the result of get_all_combinations.
C5_SwapOnlyPresent ==
    enumPc = "combined" =>
        \A j \in 1..Len(swap_dicts) :
            swap_dicts[j] # EmptyDict => <<<<>>, swap_dicts[j]>> \in SeqRange(combos)

\* C5 (amended): the result of get_all_combinations is the cartesian product of
\* the surviving non-empty transform subsets with the swap-map candidates, each
\* pair once; no swap-only request is in it.
C5_ProductOfNonEmpty ==
    enumPc = "combined" =>
        /\ SeqRange(combos) = Surviving(variation_types) \X SeqRange(swap_dicts)
        /\ Len(combos) = Cardinality(SeqRange(combos))
        /\ \A j \in 1..Len(swap_dicts) : <<<<>>, swap_dicts[j]>> \notin SeqRange(combos)

C5_Witness ==
    /\ enumPc = "combined"
    /\ \E j \in 1..Len(swap_dicts) : Cardinality(swap_dicts[j]) = 2
    /\ Len(combos) = 5 * Cardinality(SeqRange(swap_dicts))
    /\ Len(swap_dicts) > Cardinality(SeqRange(swap_dicts))

\* C9 (as stated): originals that are not exactly two distinct entries (fewer
\* than two, more than two, or two equal strings) give an empty result.
C9_EmptyUnlessTwoDistinct ==
    (enumPc = "combined" /\ ~TwoDistinctOriginals) => combos = <<>>

\* C9 (amended): originals with fewer or more than two entries give an empty
\* result; two entries, equal or not, give a non-empty one.
C9_EmptyUnlessTwo ==
    enumPc = "combined" =>
        /\ Len(original_entities) # 2 => (combos = <<>> /\ swap_dicts = <<>>)
        /\ Len(original_entities) = 2 => combos # <<>>

C9_Witness ==
    /\ enumPc = "combined"
    /\ Len(original_entities) = 3
    /\ \E k \in 1..MaxCandidates : Len(entity_lists["Ali"]) = k
    /\ combos = <<>>

C9_WitnessEqual ==
    /\ enumPc = "combined"
    /\ Len(original_entities) = 2
    /\ original_entities[1] = original_entities[2]
    /\ Len(combos) > 5

\* C10: no subset that survives filter_incompatible_variations, and no transform
\* subset of a get_all_combinations result, holds both VAR_TYPE_3 and VAR_TYPE_4;
\* every other non-empty subset of the catalog survives, once; the catalog
\* <<VAR_TYPE_3, VAR_TYPE_4>> gives exactly the two singletons.
C10_MutuallyExclusive ==
    /\ enumPc = "filtered" =>
        /\ \A k \in 1..Len(filtered) : ~BothDirections(filtered[k])
        /\ SeqRange(filtered) = Surviving(catalog)
        /\ Len(filtered) = Cardinality(Surviving(catalog))
        /\ catalog = <<VAR_TYPE_3, VAR_TYPE_4>> =>
               filtered = << <<VAR_TYPE_3>>, <<VAR_TYPE_4>> >>
    /\ enumPc = "combined" =>
        \A k \in 1..Len(combos) : ~BothDirections(combos[k][1])

C10_Witness ==
    /\ enumPc = "filtered"
    /\ catalog = <<VAR_TYPE_3, VAR_TYPE_4>>
    /\ Len(filtered) = 2

\* the single-entity maps {key: e} for the usable candidates e of list, in order
RECURSIVE ExpectedSingles(_, _, _, _)
ExpectedSingles(key, list, k, originals) ==
    IF k > Len(list) THEN <<>>
    ELSE (IF list[k] \notin (originals \cup {""}) THEN <<{<<key, list[k]>>}>> ELSE <<>>)
         \o ExpectedSingles(key, list, k + 1, originals)

\* the two-entity maps, for e1 in l1, for e2 in l2
RECURSIVE ExpectedBoth(_, _, _, _, _, _, _)
ExpectedBoth(o1, o2, l1, l2, j, k, originals) ==
    IF j > Len(l1) THEN <<>>
    ELSE IF k > Len(l2) THEN ExpectedBoth(o1, o2, l1, l2, j + 1, 1, originals)
    ELSE (IF /\ l1[j] \notin (originals \cup {""})
             /\ l2[k] \notin (originals \cup {""})
             /\ l1[j] # l2[k]
          THEN <<{<<o1, l1[j]>>, <<o2, l2[k]>>}>> ELSE <<>>)
         \o ExpectedBoth(o1, o2, l1, l2, j, k + 1, originals)

\* C11: for two distinct originals generate_entity_swap_combinations returns, in
\* this order, the empty map, the usable single replacements of the first
\* original, those of the second, and the usable pairs with different values; no
\* replacement value is an original; one usable candidate each (different from
\* each other) gives exactly 4 maps.
C11_SwapListExact ==
    (enumPc = "combined" /\ TwoDistinctOriginals) =>
        LET o1 == original_entities[1]
            o2 == original_entities[2]
            l1 == entity_lists[o1]
            l2 == entity_lists[o2]
        IN  /\ swap_dicts = <<{}>>
                   \o ExpectedSingles(o1, l1, 1, {o1, o2})
                   \o ExpectedSingles(o2, l2, 1, {o1, o2})
                   \o ExpectedBoth(o1, o2, l1, l2, 1, 1, {o1, o2})
            /\ \A j \in 1..Len(swap_dicts) : \A item \in swap_dicts[j] :
                   item[2] \notin {o1, o2}
            /\ (/\ Len(l1) = 1 /\ Len(l2) = 1 /\ l1[1] # l2[1]
                /\ l1[1] \notin {"", o1, o2} /\ l2[1] \notin {"", o1, o2})
               => Len(swap_dicts) = 4

C11_Witness ==
    /\ enumPc = "combined"
    /\ original_entities = <<"Ali", "Sara">>
    /\ entity_lists["Ali"] = <<"Hassan">>
    /\ entity_lists["Sara"] = <<"Ayesha">>
    /\ Len(swap_dicts) = 4

C11_WitnessRejects ==
    /\ enumPc = "combined"
    /\ original_entities = <<"Ali", "Sara">>
    /\ entity_lists["Ali"] = <<"Sara", "Hassan">>
    /\ entity_lists["Sara"] = <<"Hassan", "">>
    /\ Len(swap_dicts) = 3

\* position of the first occurrence of x in seq
FirstIndex(seq, x) == CHOOSE k \in 1..Len(seq) : seq[k] = x /\ \A j \in 1..(k - 1) : seq[j] # x
SameIdentity(a, b) == SeqRange(a[1]) = SeqRange(b[1]) /\ a[2] = b[2]

\* C12: no two entries of a get_all_combinations result have the same identity
\* (same transform labels, same swap entries), also when the candidate lists
\* repeat values; every pair of the nested loops is in the result, in the order
\* of its first occurrence.
C12_UniqueInOrder ==
    enumPc = "combined" =>
        LET raw == product(filter_incompatible_variations(powerset(variation_types)),
                           swap_dicts)
        IN  /\ \A j, k \in 1..Len(combos) : j < k => ~SameIdentity(combos[j], combos[k])
            /\ SeqRange(combos) = SeqRange(raw)
            /\ \A j \in 1..(Len(combos) - 1) :
                   FirstIndex(raw, combos[j]) < FirstIndex(raw, combos[j + 1])

C12_Witness ==
    /\ enumPc = "combined"
    /\ TwoDistinctOriginals
    /\ Len(swap_dicts) > Cardinality(SeqRange(swap_dicts))
    /\ Len(combos) = 5 * Cardinality(SeqRange(swap_dicts))
    /\ \E j \in 1..Len(swap_dicts) : Cardinality(swap_dicts[j]) = 2

(***************************************************************************)
(* Properties of the derived fields (checked under SpecDerive)             *)
(***************************************************************************)
Letters == <<"A", "B", "C">>

\* C13: correct is true exactly when the model answer is "A", "B" or "C" and its
\* index (A=0, B=1, C=2) equals the integer label; any other answer gives
\* correct = false for every label, a missing label counting as -1.
C13_CorrectDerivation ==
    derivePc = "derived" =>
        /\ is_correct <=>
               \E i \in 0..2 : /\ model_choice = Letters[i + 1]
                               /\ example_label = <<i>>
        /\ model_choice \notin SeqRange(Letters) => (model_idx = <<>> /\ ~is_correct)
        /\ example_label = <<>> => (correct_idx = -1 /\ ~is_correct)

C13_Witness ==
    /\ derivePc = "derived"
    /\ raw_response = " B "
    /\ example_label = <<1>>
    /\ is_correct

C13_WitnessUnmapped ==
    /\ derivePc = "derived"
    /\ model_choice = "D"
    /\ example_label = <<>>
    /\ ~is_correct

(***************************************************************************)
(* Properties of generate_variations (checked under SpecGen)               *)
(***************************************************************************)
\* the positions up to n of the requests other than the all-empty one, in order
NonOriginalUpTo(reqs, n) ==
    LET Attemptable(k) == reqs[k] # AllEmpty
    IN  SelectSeq([k \in 1..n |-> k], Attemptable)

\* C14: every request other than the all-empty one is attempted exactly once, in
\* list order; a failing request does not end the batch; the returned list is
\* the original record followed by one record per successful request, in
\* request order, so its length is 1 + the number of successes.
C14_IsolateAndContinue ==
    gvPc \in {"loop", "done"} =>
        /\ attempted = NonOriginalUpTo(requests, reqIdx)
        /\ gvPc = "done" => reqIdx = Len(requests)
        /\ variations[1].kind = "original"
        /\ \A k \in 2..Len(variations) :
               /\ variations[k].kind = "generated"
               /\ variations[k].request \in SeqRange(attempted)
               /\ k > 2 => variations[k - 1].request < variations[k].request
        /\ Len(variations) = 1 + Len(attempted) - genErrors

C14_Witness ==
    /\ gvPc = "done"
    /\ Len(requests) = 3
    /\ \E k \in 1..3 : requests[k] = AllEmpty
    /\ attempted = <<1, 3>>
    /\ genErrors = 1
    /\ Len(variations) = 2
    /\ variations[2].request = 3

\* C18: the k-th generated record carries example_id = base + k - 1, base being
\* the original's example_id (1 when absent), whatever id the response carried;
\* failed requests use up no id.
C18_ConsecutiveIds ==
    gvPc \in {"loop", "done"} =>
        LET base == IF data_id = <<>> THEN 1 ELSE data_id[1]
        IN  \A k \in 1..(Len(variations) - 1) :
                variations[k + 1].example_id = <<base + k - 1>>

C18_Witness ==
    /\ gvPc = "done"
    /\ data_id = <<7>>
    /\ genErrors = 1
    /\ Len(variations) = 3
    /\ variations[2].request = 1
    /\ variations[3].request = 3
    /\ variations[3].response_id = <<99>>
    /\ variations[3].example_id = <<8>>

(***************************************************************************)
(* Properties of the cursor and the store across invocations               *)
(***************************************************************************)
RecLeq(a, b) == a = b \/ RecLess(a, b)
Last(seq) == seq[Len(seq)]
CoveredByCursor == {r \in Records : RecLeq(r, CursorRec(progress))}

\* C15 (checked under SpecKill): after a kill, with no classify failure in the
\* behaviour, every record up to the cursor has a row, the record the cursor
\* names has one (the row is appended before the cursor advances), and no record
\* has more rows than one plus the number of kills.
C15_KillLosesNothing ==
    (kills > 0 /\ failures = 0) =>
        /\ CoveredByCursor \subseteq Rows
        /\ \A r \in Rows : Occurrences(results, r) <= 1 + kills

\* the parts of C15 that do not depend on the cap: the record the cursor names
\* has its row, and a record is appended again at most once per kill
C15_RowBeforeCursor ==
    failures = 0 =>
        /\ progress # DefaultProgress => CursorRec(progress) \in Rows
        /\ \A r \in Rows : Occurrences(results, r) <= 1 + kills

\* C16: at the end of an invocation that met no classify failure, every record
\* up to the persisted cursor has a row in the store.
C16_CursorCoversRows ==
    (pc = "idle" /\ runs > 0 /\ failures = 0) => CoveredByCursor \subseteq Rows

\* C17: the cursor never moves backward, every row appended follows the last row
\* of the store, and every record passed to query_groq follows the cursor and
\* the record classified before it, in (sorted file name, line index) order.
C17_OrderedProgress ==
    [][/\ RecLeq(CursorRec(progress), CursorRec(progress'))
       /\ Len(results') > Len(results) =>
              (results = <<>> \/ RecLess(Last(results), Last(results')))
       /\ Len(classified') > Len(classified) =>
              /\ RecLess(CursorRec(progress), Last(classified'))
              /\ classified = <<>> \/ RecLess(Last(classified), Last(classified'))
      ]_vars

C17_Witness ==
    /\ runs >= 2
    /\ startRows > 0
    /\ Len(results) > startRows + 1
    /\ results[1][1] = 1
    /\ Last(results)[1] = NumFiles
    /\ CursorRec(progress) = Last(results)

====
